---- MODULE Spec2Model ----
(***************************************************************************)
(* BinanceMonitor (src/binance_monitor.py): the valuation of one account   *)
(* (get_balance), the tick (save_balance_data) that rewrites the CSV       *)
(* store, the background loop (start_monitoring / monitor_loop /           *)
(* stop_monitoring) and the load (get_historical_data).                    *)
(*                                                                         *)
(* The CSV file is a sequence of cells: the header line first, then the    *)
(* fields of the rows in column order.  to_csv rewrites the whole file: it *)
(* opens it for writing (which truncates it to zero bytes) and then writes *)
(* through its own file offset, in one or several chunks.                  *)
(***************************************************************************)
EXTENDS Integers, Sequences, FiniteSets, TLC

\* ------------------------------------------------------------------ bounds
MaxRows == 3         \* rows of a stored table (the charts; the appends over several runs)
MaxThreads == 2      \* background loops ever started
MaxTicks == 2        \* executions of save_balance_data ever begun
BufCells == 3        \* cells the file buffer of to_csv holds before it writes them

\* ------------------------------------------------------------ small helpers
Max(a, b) == IF a >= b THEN a ELSE b

Range(s) == {s[i] : i \in 1..Len(s)}

\* Optional results of an external call: <<>> is a failed call, <<v>> its value.
Failed == <<>>
Ok(v) == <<v>>

\* ------------------------------------------------------------------ values
\* Python's None, pandas' NaN, a float, and what a column of text that is not
\* a number reads as.
None == [k |-> "None"]
NaN == [k |-> "NaN"]
Float(v) == [k |-> "float", x |-> v]
Garbage == [k |-> "garbage"]

\* pd.isna
isna(v) == v = None \/ v = NaN

\* Cells of the CSV file: an empty field, the text of a number, the header
\* line, and NUL bytes (the hole left by writing beyond the end of the file).
EmptyCell == [k |-> "empty"]
Text(v) == [k |-> "text", x |-> v]
HeaderCell == [k |-> "header"]
NulCell == [k |-> "nul"]

\* ------------------------------------------------------------ configuration
\* config["accounts"], in the order of the file.
Accounts == <<"acc1", "acc2">>
AccountNames == Range(Accounts)
NumCols == Len(Accounts) + 1

\* Asset tickers and pair symbols are strings: sequences of characters.
USDT == <<"U", "S", "D", "T">>
BUSD == <<"B", "U", "S", "D">>
USDC == <<"U", "S", "D", "C">>
BTC == <<"B", "T", "C">>
ETH == <<"E", "T", "H">>

quote_assets == <<USDT, BUSD, USDC, BTC, ETH>>

\* config.get("pair", "USDCUSDT")
DefaultPair == USDC \o USDT

\* ------------------------------------------------------------- get_balance
\* sorted(quote_assets, key=len, reverse=True): a stable sort, so tickers of
\* the same length keep their order.
RECURSIVE SortedFrom(_, _)
SortedFrom(s, n) ==
    IF n = 0 THEN <<>>
    ELSE SelectSeq(s, LAMBDA q : Len(q) = n) \o SortedFrom(s, n - 1)

MaxLenOf(s) == IF s = <<>> THEN 0 ELSE CHOOSE n \in {Len(s[i]) : i \in 1..Len(s)} :
                                          \A i \in 1..Len(s) : Len(s[i]) <= n

quote_assets_sorted == SortedFrom(quote_assets, MaxLenOf(quote_assets))

\* str.endswith
endswith(s, q) ==
    /\ Len(q) <= Len(s)
    /\ SubSeq(s, Len(s) - Len(q) + 1, Len(s)) = q

\* The suffix loop of get_balance: the first ticker of quote_assets_sorted
\* the pair ends with.  base and quote stay None (<<>> here, as falsy as "")
\* when no ticker matches.
Matching(pair) == {i \in 1..Len(quote_assets_sorted) : endswith(pair, quote_assets_sorted[i])}

SuffixSplit(pair) ==
    IF Matching(pair) = {} THEN [base |-> <<>>, quote |-> <<>>]
    ELSE LET i == CHOOSE j \in Matching(pair) : \A m \in Matching(pair) : j <= m
             quote == quote_assets_sorted[i]
         IN [base |-> SubSeq(pair, 1, Len(pair) - Len(quote)), quote |-> quote]

\* A get_balance without the fallback to get_exchange_info.
ResolveBySuffix(pair, info) == SuffixSplit(pair)

\* Base and quote asset after the fallback to get_exchange_info.  info is
\* Failed when the call raises or lists no such symbol, else Ok of the
\* symbol's [baseAsset, quoteAsset].
ResolvePair(pair, info) ==
    LET s == SuffixSplit(pair)
    IN IF (s.base = <<>> \/ s.quote = <<>>) /\ info # Failed
       THEN [base |-> info[1].baseAsset, quote |-> info[1].quoteAsset]
       ELSE s

\* A get_balance that leaves out the account's direct USDT balance.
BalanceOfBase(balances, asset) ==
    IF asset \in DOMAIN balances /\ asset # USDT THEN balances[asset] ELSE 0

\* balances.get(asset, 0): the dict holds only the assets with free + locked > 0.
BalanceOf(balances, asset) ==
    IF asset \in DOMAIN balances THEN balances[asset] ELSE 0

\* What the body of get_balance does: it returns a value, or an exception
\* is raised inside it.  x is what the exchange answers for this account:
\*   x.hasClient  the account has a client (account_name in self.clients)
\*   x.account    client.get_account(): Failed, or Ok(balances)
\*   x.info       client.get_exchange_info() restricted to the pair
\*   x.price      client.get_symbol_ticker(symbol=pair)
\*   x.quotePrice client.get_symbol_ticker(symbol=quote + "USDT")
Return(v) == [k |-> "return", v |-> v]
Raise == [k |-> "raise"]

get_balance_try(pair, x) ==
    IF x.account = Failed THEN Raise
    ELSE LET balances == x.account[1]
             p == ResolvePair(pair, x.info)
         IN IF p.base = <<>> THEN Return(None)
            ELSE IF x.price = Failed THEN Raise
            ELSE LET base_balance == BalanceOf(balances, p.base)
                     quote_value == base_balance * x.price[1]
                     usdt_balance == BalanceOf(balances, USDT)
                 IN IF p.quote = USDT \/ p.quote \in {USDC, BUSD}
                    THEN Return(Float(quote_value + usdt_balance))
                    ELSE IF x.quotePrice = Failed THEN Return(None)
                    ELSE Return(Float(quote_value * x.quotePrice[1] + usdt_balance))

\* get_balance without its except clauses: what the try block raises goes on to
\* the caller.
get_balance_uncaught(r) == r

\* The except clauses of get_balance turn every exception into None.
get_balance_except(r) == IF r = Raise THEN Return(None) ELSE r

get_balance(pair, x) ==
    IF ~x.hasClient THEN Return(None)
    ELSE get_balance_except(get_balance_try(pair, x))

\* -------------------------------------------------------------- the CSV file
\* A row of a DataFrame in memory: [timestamp, vals], vals in the order of
\* Accounts.  A DataFrame is a sequence of rows.

\* DataFrame.to_csv, one value: None and NaN are written as an empty field.
to_csv_cell(v) ==
    IF isna(v) THEN EmptyCell
    ELSE IF v = Garbage THEN NulCell
    ELSE Text(v.x)

\* read_csv, one field of an account's column.
read_csv_cell(c) ==
    IF c = EmptyCell THEN NaN
    ELSE IF c = NulCell THEN Garbage
    ELSE Float(c.x)

RowCells(row) ==
    <<Text(row.timestamp)>> \o [j \in 1..Len(row.vals) |-> to_csv_cell(row.vals[j])]

RECURSIVE BodyCells(_)
BodyCells(df) ==
    IF df = <<>> THEN <<>> ELSE RowCells(Head(df)) \o BodyCells(Tail(df))

\* The bytes to_csv writes for df: the header line, then the rows.
to_csv(df) == <<HeaderCell>> \o BodyCells(df)

\* The rows read_csv finds in the cells after the header: every NumCols
\* cells are a line; a last line that is cut short has its missing fields
\* read as NaN.
NumLines(body) == (Len(body) + NumCols - 1) \div NumCols

CellAt(body, i, j) ==
    LET n == (i - 1) * NumCols + j
    IN IF n <= Len(body) THEN body[n] ELSE EmptyCell

ParsedRows(body) ==
    [i \in 1..NumLines(body) |->
        [timestamp |-> CellAt(body, i, 1).x,
         vals |-> [j \in 1..Len(Accounts) |-> read_csv_cell(CellAt(body, i, j + 1))]]]

\* pd.read_csv followed by pd.to_datetime(df['timestamp']).  It raises on a
\* file of zero bytes (EmptyDataError), on a file whose first line is not
\* the header (no 'timestamp' column) and on a timestamp that is no date.
read_csv(cells) ==
    IF cells = <<>> THEN Raise
    ELSE IF Head(cells) # HeaderCell THEN Raise
    ELSE IF \E i \in 1..NumLines(Tail(cells)) : CellAt(Tail(cells), i, 1).k # "text" THEN Raise
    ELSE Return(ParsedRows(Tail(cells)))

\* A write of the cells new at file offset off: what was there is
\* overwritten, what lies beyond stays, and a gap before off is NUL bytes.
WriteAt(cells, off, new) ==
    [i \in 1..Max(Len(cells), off + Len(new)) |->
        IF i > off /\ i <= off + Len(new) THEN new[i - off]
        ELSE IF i <= Len(cells) THEN cells[i]
        ELSE NulCell]

\* -------------------------------------------------------------------- state
Threads == 1..MaxThreads

VARIABLES
    accounts,   \* the names of config["accounts"], in the order of the file
    pair,       \* config["pair"]
    running,    \* self.running
    thread,     \* self.thread: 0 for None, else the thread last started
    pc,         \* where each background thread is in monitor_loop
    data,       \* save_balance_data's dict of the tick, per thread
    df,         \* save_balance_data's DataFrame, per thread
    wpos,       \* the file offset of the thread's to_csv, in cells
    file,       \* balance_history.csv: [exists, cells]
    clock,      \* datetime.now(), counted in ticks begun
    mainpc,     \* the calling thread: "idle", or "join" inside stop_monitoring
    ret,        \* what the call made in the step just taken returned
    failed,     \* per thread, the accounts whose valuation failed this tick
    ticks,      \* per thread, the ticks it has begun
    stopAt,     \* where self.thread was when stop_monitoring last cleared the flag
    samples     \* the rows the store was left with: those it began with, then the row of
                \* every tick that returned

vars == <<accounts, pair, running, thread, pc, data, df, wpos, file, clock, mainpc,
          ret, failed, ticks, stopAt, samples>>

NoData == [timestamp |-> 0, vals |-> <<>>]

\* ret: no call returned in this step, a start_monitoring that found the
\* monitor running, or the result of get_historical_data.
NoCall == [k |-> "nocall"]
StartNoop == [k |-> "start_noop"]
Loaded(v) == [k |-> "loaded", v |-> v]

\* The configured pairs the model is run with: the default (quote USDT), a
\* pair whose quote needs a conversion to USDT, and a symbol no known quote
\* ticker ends.
ConfigPairs == {DefaultPair, ETH \o BTC, <<"X", "Y">>}

\* What the exchange may answer for one account: the account holds one unit
\* of each of three base assets and five USDT, and nothing else.
Holdings == {[a \in {USDC, ETH, <<"X">>, USDT} |-> IF a = USDT THEN 5 ELSE 1]}

ExchangeAnswers ==
    [hasClient : BOOLEAN,
     account : {Failed} \cup {Ok(b) : b \in Holdings},
     info : {Failed, Ok([baseAsset |-> <<"X">>, quoteAsset |-> <<"Y">>])},
     price : {Failed, Ok(2)},
     quotePrice : {Failed, Ok(3)}]

\* The store the program starts with: no file yet, or the file of an earlier
\* run holding one row.
OldRow == [timestamp |-> 0, vals |-> <<None, Float(0)>>]

InitFiles ==
    {[exists |-> FALSE, cells |-> <<>>],
     [exists |-> TRUE, cells |-> to_csv(<<OldRow>>)]}

\* A row as read_csv returns it: None has become NaN.
AsLoaded(row) ==
    [timestamp |-> row.timestamp,
     vals |-> [j \in 1..Len(row.vals) |-> IF isna(row.vals[j]) THEN NaN ELSE row.vals[j]]]

\* The rows read_csv finds in the file, none when there is no file or it
\* cannot be read.
Readable(f) ==
    IF ~f.exists \/ read_csv(f.cells) = Raise THEN <<>> ELSE read_csv(f.cells).v

Init ==
    /\ accounts = Accounts
    /\ pair = DefaultPair
    /\ running = FALSE
    /\ thread = 0
    /\ pc = [t \in Threads |-> "unborn"]
    /\ data = [t \in Threads |-> NoData]
    /\ df = [t \in Threads |-> <<>>]
    /\ wpos = [t \in Threads |-> 0]
    /\ file \in InitFiles
    /\ clock = 0
    /\ mainpc = "idle"
    /\ ret = NoCall
    /\ failed = [t \in Threads |-> {}]
    /\ ticks = [t \in Threads |-> 0]
    /\ stopAt = "none"
    /\ samples = Readable(file)

\* --------------------------------------------------------- the background loop
\* The failures of one account's valuation: no client, the balance fetch
\* fails, the pair is unresolved, the pair has no price, or the quote asset
\* has no conversion to USDT.
Unresolved(p, x) == ResolvePair(p, x.info).base = <<>>

NeedsConversion(p, x) == ResolvePair(p, x.info).quote \notin {USDT, USDC, BUSD}

Failing(p, x) ==
    \/ ~x.hasClient
    \/ x.account = Failed
    \/ Unresolved(p, x)
    \/ x.price = Failed
    \/ NeedsConversion(p, x) /\ x.quotePrice = Failed

\* The phases of save_balance_data.
InTick == {"fetch", "read", "open", "write"}

\* An exception leaves save_balance_data and reaches monitor_loop's
\* "except Exception".
TickRaises(t) ==
    /\ pc' = [pc EXCEPT ![t] = "except"]
    /\ df' = [df EXCEPT ![t] = <<>>]
    /\ wpos' = [wpos EXCEPT ![t] = 0]
    /\ UNCHANGED <<data, failed>>

\* Ticks begun or about to begin (the bound of the model is on these).
Begun == clock + Cardinality({u \in Threads : pc[u] = "save"})

\* A loop that does not look at the flag.
LoopForever == TRUE

\* The test of "while self.running:".
LoopTest == running

\* while self.running: into the tick, or out of the loop and the thread ends.
monitor_loop_while(t) ==
    /\ pc[t] = "while"
    /\ \/ /\ LoopTest
          /\ Begun < MaxTicks
          /\ pc' = [pc EXCEPT ![t] = "save"]
       \/ /\ ~LoopTest
          /\ pc' = [pc EXCEPT ![t] = "dead"]
    /\ ret' = NoCall
    /\ UNCHANGED <<accounts, pair, running, thread, data, df, wpos, file, clock, mainpc,
                   failed, ticks, stopAt, samples>>

\* timestamp = datetime.now(); data = {"timestamp": timestamp}
save_balance_data_begin(t) ==
    /\ pc[t] = "save"
    /\ clock' = clock + 1
    /\ ticks' = [ticks EXCEPT ![t] = @ + 1]
    /\ data' = [data EXCEPT ![t] = [timestamp |-> clock + 1, vals |-> <<>>]]
    /\ failed' = [failed EXCEPT ![t] = {}]
    /\ pc' = [pc EXCEPT ![t] = "fetch"]
    /\ ret' = NoCall
    /\ UNCHANGED <<accounts, pair, running, thread, df, wpos, file, mainpc, stopAt, samples>>

\* One round of "for account in accounts": data[account_name] = get_balance(...)
save_balance_data_account(t) ==
    /\ pc[t] = "fetch"
    /\ \E x \in ExchangeAnswers :
          LET r == get_balance(pair, x)
              a == Accounts[Len(data[t].vals) + 1]
          IN IF r = Raise
             THEN TickRaises(t)
             ELSE /\ data' = [data EXCEPT ![t].vals = Append(@, r.v)]
                  /\ failed' = [failed EXCEPT ![t] = IF Failing(pair, x) THEN @ \cup {a} ELSE @]
                  /\ pc' = [pc EXCEPT ![t] = IF Len(data[t].vals) + 1 = Len(Accounts)
                                             THEN "read" ELSE "fetch"]
                  /\ UNCHANGED <<df, wpos>>
    /\ ret' = NoCall
    /\ UNCHANGED <<accounts, pair, running, thread, file, clock, mainpc, ticks, stopAt, samples>>

\* if os.path.exists: df = pd.read_csv(...) else: df = pd.DataFrame();
\* df = pd.concat([df, new_row], ignore_index=True)
save_balance_data_read(t) ==
    /\ pc[t] = "read"
    /\ IF ~file.exists
       THEN /\ df' = [df EXCEPT ![t] = <<data[t]>>]
            /\ pc' = [pc EXCEPT ![t] = "open"]
            /\ UNCHANGED <<data, wpos, failed>>
       ELSE LET r == read_csv(file.cells)
            IN IF r = Raise
               THEN TickRaises(t)
               ELSE /\ df' = [df EXCEPT ![t] = Append(r.v, data[t])]
                    /\ pc' = [pc EXCEPT ![t] = "open"]
                    /\ UNCHANGED <<data, wpos, failed>>
    /\ ret' = NoCall
    /\ UNCHANGED <<accounts, pair, running, thread, file, clock, mainpc, ticks, stopAt, samples>>

\* df.to_csv(...) opens the file for writing: the file is truncated.
save_balance_data_open(t) ==
    /\ pc[t] = "open"
    /\ file' = [exists |-> TRUE, cells |-> <<>>]
    /\ wpos' = [wpos EXCEPT ![t] = 0]
    /\ pc' = [pc EXCEPT ![t] = "write"]
    /\ ret' = NoCall
    /\ UNCHANGED <<accounts, pair, running, thread, data, df, clock, mainpc, failed,
                   ticks, stopAt, samples>>

\* df.to_csv(...) writes through a buffered file: whenever BufCells cells
\* are pending they are written at the file offset, and the rest is written
\* when the file is closed.  With the last chunk save_balance_data returns,
\* the loop prints that the balance data was saved and goes to its sleep.
ChunkEnd(from, len) == IF from + BufCells < len THEN from + BufCells ELSE len

save_balance_data_write(t) ==
    /\ pc[t] = "write"
    /\ LET target == to_csv(df[t])
           n == ChunkEnd(wpos[t], Len(target))
       IN /\ file' = [file EXCEPT !.cells = WriteAt(@, wpos[t], SubSeq(target, wpos[t] + 1, n))]
          /\ IF n = Len(target)
             THEN /\ pc' = [pc EXCEPT ![t] = "sleep"]
                  /\ samples' = Append(samples, AsLoaded(data[t]))
                  /\ data' = [data EXCEPT ![t] = NoData]
                  /\ df' = [df EXCEPT ![t] = <<>>]
                  /\ wpos' = [wpos EXCEPT ![t] = 0]
                  /\ failed' = [failed EXCEPT ![t] = {}]
             ELSE /\ wpos' = [wpos EXCEPT ![t] = n]
                  /\ UNCHANGED <<pc, samples, data, df, failed>>
    /\ ret' = NoCall
    /\ UNCHANGED <<accounts, pair, running, thread, clock, mainpc, ticks, stopAt>>

\* An I/O error of the store (read_csv or to_csv raises OSError): the file
\* stays as the failed call left it.
save_balance_data_io_error(t) ==
    /\ \/ pc[t] = "read" /\ file.exists
       \/ pc[t] \in {"open", "write"}
    /\ TickRaises(t)
    /\ samples' = IF pc[t] = "write" THEN Readable(file) ELSE samples
    /\ ret' = NoCall
    /\ UNCHANGED <<accounts, pair, running, thread, file, clock, mainpc, ticks, stopAt>>

\* A loop that goes from its except clause straight back to the loop test.
RetryAtOnce == "while"

\* A loop that an exception of the tick ends.
LoopEnds == "dead"

\* Where the loop goes from its except clause: on to the sleep.
AfterExcept == "sleep"

\* except Exception as e: print(...), and on to the sleep; the tick's data is
\* dropped.
monitor_loop_except(t) ==
    /\ pc[t] = "except"
    /\ pc' = [pc EXCEPT ![t] = AfterExcept]
    /\ data' = [data EXCEPT ![t] = NoData]
    /\ failed' = [failed EXCEPT ![t] = {}]
    /\ ret' = NoCall
    /\ UNCHANGED <<accounts, pair, running, thread, df, wpos, file, clock, mainpc,
                   ticks, stopAt, samples>>

\* time.sleep(interval_seconds) returns.
monitor_loop_sleep(t) ==
    /\ pc[t] = "sleep"
    /\ pc' = [pc EXCEPT ![t] = "while"]
    /\ ret' = NoCall
    /\ UNCHANGED <<accounts, pair, running, thread, data, df, wpos, file, clock, mainpc,
                   failed, ticks, stopAt, samples>>

\* ------------------------------------------------------ the calls on the monitor
Started == {t \in Threads : pc[t] # "unborn"}

\* A start_monitoring without its guard.
NeverRunning == FALSE

\* if self.running: return
AlreadyRunning == running

\* start_monitoring: a no-op while running, else a new daemon thread.
start_monitoring ==
    /\ mainpc = "idle"
    /\ IF AlreadyRunning
       THEN /\ ret' = StartNoop
            /\ UNCHANGED <<running, thread, pc, stopAt>>
       ELSE /\ Cardinality(Started) < MaxThreads
            /\ running' = TRUE
            /\ thread' = Cardinality(Started) + 1
            /\ pc' = [pc EXCEPT ![Cardinality(Started) + 1] = "while"]
            /\ stopAt' = "none"
            /\ ret' = NoCall
    /\ UNCHANGED <<accounts, pair, data, df, wpos, file, clock, mainpc, failed, ticks, samples>>

\* Where a loop is, as stop_monitoring finds it: it has begun no tick yet,
\* it is inside a tick, or it is in its sleep.
PhaseOf(t) ==
    IF t = 0 THEN "none"
    ELSE IF pc[t] \in {"while", "save"} /\ ticks[t] = 0 THEN "unfired"
    ELSE IF pc[t] \in InTick THEN "tick"
    ELSE pc[t]

\* stop_monitoring: self.running = False, then the join if there is a thread.
stop_monitoring ==
    /\ mainpc = "idle"
    /\ running' = FALSE
    /\ stopAt' = PhaseOf(thread)
    /\ mainpc' = IF thread # 0 THEN "join" ELSE "idle"
    /\ ret' = NoCall
    /\ UNCHANGED <<accounts, pair, thread, pc, data, df, wpos, file, clock, failed, ticks, samples>>

\* self.thread.join(timeout=1) returns: the thread has ended, or the second
\* has passed.
stop_monitoring_join ==
    /\ mainpc = "join"
    /\ \/ pc[thread] = "dead"
       \/ pc[thread] # "dead"
    /\ mainpc' = "idle"
    /\ ret' = NoCall
    /\ UNCHANGED <<accounts, pair, running, thread, pc, data, df, wpos, file, clock,
                   failed, ticks, stopAt, samples>>

\* get_historical_data: None when there is no file or read_csv raises.
DataFrame(rows) == [k |-> "df", rows |-> rows]

\* get_historical_data without its try / except: what read_csv raises reaches
\* the caller.
LoadUncaught(f) ==
    IF ~f.exists THEN None
    ELSE LET r == read_csv(f.cells)
         IN IF r = Raise THEN Raise ELSE [k |-> "df", rows |-> r.v]

LoadResult(f) ==
    IF ~f.exists THEN None
    ELSE LET r == read_csv(f.cells)
         IN IF r = Raise THEN None ELSE DataFrame(r.v)

get_historical_data ==
    /\ mainpc = "idle"
    /\ ret' = Loaded(LoadResult(file))
    /\ UNCHANGED <<accounts, pair, running, thread, pc, data, df, wpos, file, clock,
                   mainpc, failed, ticks, stopAt, samples>>

Next ==
    \/ \E t \in Threads : monitor_loop_while(t)
    \/ \E t \in Threads : save_balance_data_begin(t)
    \/ \E t \in Threads : save_balance_data_account(t)
    \/ \E t \in Threads : save_balance_data_read(t)
    \/ \E t \in Threads : save_balance_data_open(t)
    \/ \E t \in Threads : save_balance_data_write(t)
    \/ \E t \in Threads : monitor_loop_except(t)
    \/ \E t \in Threads : monitor_loop_sleep(t)
    \/ start_monitoring
    \/ stop_monitoring
    \/ stop_monitoring_join
    \/ get_historical_data

Spec == Init /\ [][Next]_vars

\* The program under each of the configured pairs.
InitPairs ==
    /\ accounts = Accounts
    /\ pair \in ConfigPairs
    /\ running = FALSE
    /\ thread = 0
    /\ pc = [t \in Threads |-> "unborn"]
    /\ data = [t \in Threads |-> NoData]
    /\ df = [t \in Threads |-> <<>>]
    /\ wpos = [t \in Threads |-> 0]
    /\ file \in InitFiles
    /\ clock = 0
    /\ mainpc = "idle"
    /\ ret = NoCall
    /\ failed = [t \in Threads |-> {}]
    /\ ticks = [t \in Threads |-> 0]
    /\ stopAt = "none"
    /\ samples = Readable(file)

SpecPairs == InitPairs /\ [][Next]_vars

\* The steps of background thread t.  The threads are scheduled and their
\* calls return: each keeps taking steps while it has one to take.
LoopStep(t) ==
    \/ monitor_loop_while(t)
    \/ save_balance_data_begin(t)
    \/ save_balance_data_account(t)
    \/ save_balance_data_read(t)
    \/ save_balance_data_open(t)
    \/ save_balance_data_write(t)
    \/ monitor_loop_except(t)
    \/ monitor_loop_sleep(t)

\* The monitor started once, over a store whose calls may fail, with each of
\* a set of pair symbols: every known quote ticker alone and behind several
\* bases (one of them itself a ticker), and a symbol no ticker ends.
ParseBases == {<<>>, <<"B">>, <<"X">>, ETH, USDT}

ParsePairs == {b \o quote_assets[i] : b \in ParseBases, i \in 1..Len(quote_assets)} \cup {<<"X", "Y">>}

ParseInit ==
    /\ accounts = Accounts
    /\ pair \in ParsePairs
    /\ running = FALSE
    /\ thread = 0
    /\ pc = [t \in Threads |-> "unborn"]
    /\ data = [t \in Threads |-> NoData]
    /\ df = [t \in Threads |-> <<>>]
    /\ wpos = [t \in Threads |-> 0]
    /\ file = [exists |-> FALSE, cells |-> <<>>]
    /\ clock = 0
    /\ mainpc = "idle"
    /\ ret = NoCall
    /\ failed = [t \in Threads |-> {}]
    /\ ticks = [t \in Threads |-> 0]
    /\ stopAt = "none"
    /\ samples = <<>>

ParseNext ==
    \/ \E t \in Threads : LoopStep(t)
    \/ \E t \in Threads : save_balance_data_io_error(t)
    \/ start_monitoring

ParseSpec == ParseInit /\ [][ParseNext]_vars

\* The monitor started and never stopped, as account_monitor.py runs it
\* until the window closes, over a store whose calls may fail with an I/O
\* error.
FaultNext ==
    \/ \E t \in Threads : LoopStep(t)
    \/ \E t \in Threads : save_balance_data_io_error(t)
    \/ start_monitoring
    \/ get_historical_data

FaultSpec == InitPairs /\ [][FaultNext]_vars /\ \A t \in Threads : WF_vars(LoopStep(t))

\* The monitor started and stopped in any order, its loops scheduled: a
\* thread that has a step to take (time.sleep returning is one) takes it.
StopNext ==
    \/ \E t \in Threads : LoopStep(t)
    \/ start_monitoring
    \/ stop_monitoring
    \/ stop_monitoring_join

\* The first run of the program: there is no file yet.
StopInit == Init /\ ~file.exists

StopSpec == StopInit /\ [][StopNext]_vars /\ \A t \in Threads : WF_vars(LoopStep(t))

\* ------------------------------------------------------------------ charts
\* The charts of account_monitor.py.  Timestamps are counted in quarters of a
\* day, so that the year of 365.25 days is a whole number of them; a return
\* is a fraction [n, d] in lowest terms with d > 0 (floating-point rounding
\* is not modelled).
YearUnits == 1461

RECURSIVE GCD(_, _)
GCD(a, b) == IF b = 0 THEN a ELSE GCD(b, a % b)

Abs(a) == IF a < 0 THEN 0 - a ELSE a

Frac(n, d) ==
    LET g == GCD(Abs(n), Abs(d))
    IN IF d < 0 THEN [n |-> (0 - n) \div g, d |-> (0 - d) \div g]
       ELSE [n |-> n \div g, d |-> d \div g]

\* The DataFrame get_historical_data returns, with its RangeIndex: row i
\* carries the label i - 1.
Indexed(rows) ==
    [i \in 1..Len(rows) |-> [index |-> i - 1, timestamp |-> rows[i].timestamp, vals |-> rows[i].vals]]

\* get_filtered_data: the rows from the selected date on, labels kept;
\* start is NoFilter when the date filter is off.
NoFilter == -1

get_filtered_data(tbl, start) ==
    IF start = NoFilter THEN tbl
    ELSE SelectSeq(tbl, LAMBDA r : r.timestamp >= start)

\* tbl[account_name].dropna(): the rows where account number j has a value.
dropna(tbl, j) == SelectSeq(tbl, LAMBDA r : ~isna(r.vals[j]))

\* tbl.loc[first_index:current_index]: the rows whose labels lie between the
\* two (the labels of tbl increase along the rows).
loc(tbl, first_index, current_index) ==
    SelectSeq(tbl, LAMBDA r : r.index >= first_index /\ r.index <= current_index)

\* account_data.iloc[-1] with its row: the last row of tbl that holds a value
\* of account j.
last_present(tbl, j) == dropna(tbl, j)[Len(dropna(tbl, j))]

\* BinanceMonitor.calculate_account_annual_return
calculate_account_annual_return(tbl, j) ==
    IF tbl = <<>> THEN None
    ELSE LET account_data == dropna(tbl, j)
         IN IF account_data = <<>> THEN None
            ELSE LET first == account_data[1]
                     first_value == first.vals[j].x
                     last == last_present(tbl, j)
                     time_units == last.timestamp - first.timestamp
                 IN IF first_value = 0 THEN None
                    ELSE IF isna(last.vals[j]) THEN None
                    ELSE IF time_units <= 0 THEN None
                    ELSE IF first_value > 0
                         THEN Frac((last.vals[j].x - first_value) * 100 * YearUnits,
                                   first_value * time_units)
                         ELSE Frac(0, 1)

\* A point of a chart: the timestamp and the value plotted, and with them the
\* label of the row the loop was at when it added the point.
Point(r, ts, y) == [index |-> r.index, timestamp |-> ts, y |-> y]

RECURSIVE annual_points(_, _, _, _)
annual_points(tbl, j, first_index, i) ==
    IF i > Len(tbl) THEN <<>>
    ELSE LET df_subset == loc(tbl, first_index, tbl[i].index)
             annual_return == calculate_account_annual_return(df_subset, j)
         IN (IF tbl[i].index < first_index \/ annual_return = None THEN <<>>
             ELSE <<Point(tbl[i], df_subset[Len(df_subset)].timestamp, annual_return)>>)
            \o annual_points(tbl, j, first_index, i + 1)

\* update_return_chart, the series of account j: the loop runs from the
\* second row of tbl.
update_return_chart(tbl, j) ==
    LET account_data == dropna(tbl, j)
    IN IF account_data = <<>> THEN <<>>
       ELSE annual_points(tbl, j, account_data[1].index, 2)

\* A loop that skips the first observation too.
BeforeOrAtFirst(r, first) == r.index <= first.index

\* A loop that skips the rows in which the first account has no value.
BeforeFirstOfAll(r, first) == r.index < first.index \/ isna(r.vals[1])

\* if current_index < first_index: continue
BeforeFirst(r, first) == r.index < first.index

RECURSIVE actual_points(_, _, _, _)
actual_points(tbl, j, first, i) ==
    IF i > Len(tbl) THEN <<>>
    ELSE (IF BeforeFirst(tbl[i], first) \/ isna(tbl[i].vals[j]) THEN <<>>
          ELSE <<Point(tbl[i], tbl[i].timestamp,
                       Frac((tbl[i].vals[j].x - first.vals[j].x) * 100, first.vals[j].x))>>)
         \o actual_points(tbl, j, first, i + 1)

\* update_actual_return_chart, the series of account j.
update_actual_return_chart(tbl, j) ==
    LET account_data == dropna(tbl, j)
    IN IF account_data = <<>> THEN <<>>
       ELSE IF account_data[1].vals[j].x = 0 THEN <<>>
       ELSE actual_points(tbl, j, account_data[1], 1)

\* What update_charts has drawn: nothing while there is no data, else the
\* two return charts of the filtered table, one series per account.
Waiting == [k |-> "waiting"]

Charts(tbl) ==
    [k |-> "charts",
     df |-> tbl,
     annual |-> [j \in 1..Len(Accounts) |-> update_return_chart(tbl, j)],
     actual |-> [j \in 1..Len(Accounts) |-> update_actual_return_chart(tbl, j)]]

ChartTimes == {0, YearUnits, 2 * YearUnits}

\* update_charts, every 30 seconds and on every change of the filter.
update_charts ==
    /\ mainpc = "idle"
    /\ \E start \in {NoFilter, YearUnits} :
          LET loaded == LoadResult(file)
          IN IF loaded = None \/ loaded.rows = <<>>
             THEN ret' = Waiting
             ELSE LET tbl == get_filtered_data(Indexed(loaded.rows), start)
                  IN IF tbl = <<>> THEN ret' = Waiting ELSE ret' = Charts(tbl)
    /\ UNCHANGED <<accounts, pair, running, thread, pc, data, df, wpos, file, clock,
                   mainpc, failed, ticks, stopAt, samples>>

\* The tables a store may hold: up to MaxRows rows in any order of their
\* timestamps, every account absent or valued in each (the first account
\* with one more value than the others).
ChartValues(j) ==
    IF j = 1 THEN {NaN, Float(0), Float(100), Float(150)} ELSE {NaN, Float(0), Float(100)}

ChartRows ==
    [timestamp : ChartTimes,
     vals : {v \in [1..Len(Accounts) -> ChartValues(1)] : \A j \in 1..Len(Accounts) : v[j] \in ChartValues(j)}]

RECURSIVE TablesOf(_)
TablesOf(n) ==
    IF n = 0 THEN {<<>>}
    ELSE TablesOf(n - 1) \cup {Append(t, r) : t \in {u \in TablesOf(n - 1) : Len(u) = n - 1}, r \in ChartRows}

ChartInit ==
    /\ accounts = Accounts
    /\ pair = DefaultPair
    /\ running = FALSE
    /\ thread = 0
    /\ pc = [t \in Threads |-> "unborn"]
    /\ data = [t \in Threads |-> NoData]
    /\ df = [t \in Threads |-> <<>>]
    /\ wpos = [t \in Threads |-> 0]
    /\ \E t \in TablesOf(MaxRows) :
          file = IF t = <<>> THEN [exists |-> FALSE, cells |-> <<>>]
                 ELSE [exists |-> TRUE, cells |-> to_csv(t)]
    /\ clock = 0
    /\ mainpc = "idle"
    /\ ret = NoCall
    /\ failed = [t \in Threads |-> {}]
    /\ ticks = [t \in Threads |-> 0]
    /\ stopAt = "none"
    /\ samples = Readable(file)

ChartNext == update_charts

ChartSpec == ChartInit /\ [][ChartNext]_vars

\* ------------------------------------------- a configuration that changes
\* The store over several runs of the program, each with the accounts its
\* configuration file lists then.  Here the header line of the file names
\* the account columns, a DataFrame is [columns, rows], and the vals of a
\* row map column names to values.
Configs == {<<"acc1">>, <<"acc1", "acc2">>, <<"acc2">>, <<"acc2", "acc3">>, <<"acc3", "acc1">>}

Header(cols) == [k |-> "header", cols |-> cols]

\* pd.DataFrame()
EmptyFrame == [columns |-> <<>>, rows |-> <<>>]

ColumnIndex(columns, c) == CHOOSE j \in 1..Len(columns) : columns[j] = c

\* The row with a value for each of columns, NaN where it has none.
Reindexed(row, columns) ==
    [timestamp |-> row.timestamp,
     vals |-> [c \in Range(columns) |-> IF c \in DOMAIN row.vals THEN row.vals[c] ELSE NaN]]

\* A concat that keeps only the columns of the new row.
concat_new_columns(fr, cols, row) ==
    [columns |-> cols,
     rows |-> [i \in 1..Len(fr.rows) |-> Reindexed(fr.rows[i], cols)] \o <<Reindexed(row, cols)>>]

\* pd.concat([df, new_row], ignore_index=True), new_row having the columns
\* cols: the columns of df, then those of new_row that df lacks; every row
\* is NaN in the columns it did not have.
concat(fr, cols, row) ==
    LET columns == fr.columns \o SelectSeq(cols, LAMBDA c : c \notin Range(fr.columns))
    IN [columns |-> columns,
        rows |-> [i \in 1..Len(fr.rows) |-> Reindexed(fr.rows[i], columns)]
                 \o <<Reindexed(row, columns)>>]

\* df.to_csv(self.data_file, index=False)
RECURSIVE BodyCellsOf(_, _)
BodyCellsOf(columns, rows) ==
    IF rows = <<>> THEN <<>>
    ELSE RowCells([timestamp |-> Head(rows).timestamp,
                   vals |-> [j \in 1..Len(columns) |-> Head(rows).vals[columns[j]]]])
         \o BodyCellsOf(columns, Tail(rows))

to_csv_columns(fr) == <<Header(fr.columns)>> \o BodyCellsOf(fr.columns, fr.rows)

\* pd.read_csv and pd.to_datetime(df['timestamp']) of a file written whole.
read_csv_columns(cells) ==
    IF cells = <<>> THEN Raise
    ELSE IF Head(cells).k # "header" THEN Raise
    ELSE LET columns == Head(cells).cols
             body == Tail(cells)
             width == Len(columns) + 1
         IN Return([columns |-> columns,
                    rows |-> [i \in 1..(Len(body) \div width) |->
                        [timestamp |-> body[(i - 1) * width + 1].x,
                         vals |-> [c \in Range(columns) |->
                             read_csv_cell(body[(i - 1) * width + 1 + ColumnIndex(columns, c)])]]]])

\* BinanceMonitor.__init__ in a new run of the program: load_config reads
\* the configuration file, in which the accounts have been edited.
load_config ==
    /\ accounts' \in Configs \ {accounts}
    /\ ret' = NoCall
    /\ UNCHANGED <<pair, running, thread, pc, data, df, wpos, file, clock, mainpc,
                   failed, ticks, stopAt, samples>>

\* What get_balance may return for an account, over all the exchange may
\* answer.
Balances(p) == {get_balance(p, x).v : x \in ExchangeAnswers}

\* save_balance_data, a tick from its first line to its return: the dict of
\* the configured accounts, the DataFrame read from the file if there is one,
\* the concat and the rewrite of the file.
save_balance_data ==
    /\ clock < MaxRows
    /\ \E balance \in [Range(accounts) -> Balances(pair)] :
          LET row == [timestamp |-> clock + 1, vals |-> balance]
              old == IF file.exists THEN read_csv_columns(file.cells) ELSE Return(EmptyFrame)
          IN /\ old # Raise
             /\ file' = [exists |-> TRUE,
                         cells |-> to_csv_columns(concat(old.v, accounts, row))]
    /\ clock' = clock + 1
    /\ ret' = NoCall
    /\ UNCHANGED <<accounts, pair, running, thread, pc, data, df, wpos, mainpc,
                   failed, ticks, stopAt, samples>>

\* get_historical_data over a file with named columns.
LoadColumns(f) ==
    IF ~f.exists THEN None
    ELSE LET r == read_csv_columns(f.cells)
         IN IF r = Raise THEN None
            ELSE [k |-> "df", columns |-> r.v.columns, rows |-> r.v.rows]

get_historical_data_columns ==
    /\ ret' = Loaded(LoadColumns(file))
    /\ UNCHANGED <<accounts, pair, running, thread, pc, data, df, wpos, file, clock,
                   mainpc, failed, ticks, stopAt, samples>>

ConfigInit ==
    /\ accounts \in Configs
    /\ pair = DefaultPair
    /\ running = FALSE
    /\ thread = 0
    /\ pc = [t \in Threads |-> "unborn"]
    /\ data = [t \in Threads |-> NoData]
    /\ df = [t \in Threads |-> <<>>]
    /\ wpos = [t \in Threads |-> 0]
    /\ file = [exists |-> FALSE, cells |-> <<>>]
    /\ clock = 0
    /\ mainpc = "idle"
    /\ ret = NoCall
    /\ failed = [t \in Threads |-> {}]
    /\ ticks = [t \in Threads |-> 0]
    /\ stopAt = "none"
    /\ samples = <<>>

ConfigNext ==
    \/ load_config
    \/ save_balance_data
    \/ get_historical_data_columns

ConfigSpec == ConfigInit /\ [][ConfigNext]_vars

\* ------------------------------------------------------------------ claims
\* No rewrite of the file is in progress.
Quiescent == \A t \in Threads : pc[t] \notin {"open", "write"}

StoreVars == <<accounts, pair, running, thread, pc, data, df, wpos, file, clock, mainpc,
               failed, ticks, stopAt, samples>>

\* C1: in every tick the account loop runs to its end whatever accounts
\* fail; the dict it hands to the store has a slot for every account, None
\* exactly for the failing accounts and a number for the others; a slot once
\* filled is not changed by a later account, and the row the tick writes is
\* that dict.
SlotsOf(t) ==
    /\ Len(data[t].vals) = Len(Accounts)
    /\ \A i \in 1..Len(Accounts) :
          /\ (data[t].vals[i] = None) <=> (Accounts[i] \in failed[t])
          /\ Accounts[i] \notin failed[t] => data[t].vals[i].k = "float"

C1_FailingAccountsAbsent ==
    /\ [](\A t \in Threads :
            /\ pc[t] \in {"read", "open", "write", "except"} => SlotsOf(t)
            /\ pc[t] \in {"open", "write"} => df[t][Len(df[t])] = data[t])
    /\ [][\A t \in Threads : pc[t] = "fetch" =>
             /\ pc'[t] \in {"fetch", "read"}
             /\ \A i \in 1..Len(data[t].vals) : data'[t].vals[i] = data[t].vals[i]]_vars

\* A tick in which only the first account failed has appended its row.
C1_Witness ==
    \E i \in 1..Len(samples) :
        /\ samples[i].timestamp > 0
        /\ samples[i].vals[1] = NaN
        /\ samples[i].vals[2] # NaN

\* C2: a load returns the complete table of before the rewrite in progress
\* or the complete table of after it.
PreTables == IF samples = <<>> THEN {None, DataFrame(<<>>)} ELSE {DataFrame(samples)}

PostTables ==
    {DataFrame(Append(samples, AsLoaded(data[t]))) : t \in {u \in Threads : pc[u] \in {"open", "write"}}}

C2_LoadSeesPreOrPost ==
    [][get_historical_data => ret'.v \in PreTables \cup PostTables]_vars

\* C3: when two ticks have returned and no rewrite is in progress, the store
\* holds the rows of both, also when the two overlapped.
TickRows == {i \in 1..Len(samples) : samples[i].timestamp > 0}

C3_OverlappingAppendsKeepRows ==
    (Quiescent /\ Cardinality(TickRows) >= 2) =>
        \A i \in TickRows : samples[i] \in Range(Readable(file))

\* C4: a load made while no rewrite is in progress returns exactly the rows
\* the store began with followed by the rows of the ticks that returned, in
\* that order, absent values being absent.
C4_LoadAfterAppends ==
    (ret.k = "loaded" /\ Quiescent) => ret.v \in PreTables

\* C5: in every state the file holds only whole rows: after the header,
\* lines of one timestamp and one field per account.
C5_StoreRowsWhole ==
    file.cells # <<>> =>
        /\ Head(file.cells) = HeaderCell
        /\ (Len(file.cells) - 1) % NumCols = 0
        /\ \A i \in 1..Len(file.cells) : file.cells[i] # NulCell

\* C6: start_monitoring called while the monitor is running changes nothing:
\* no new thread, no change of the flag, the loops or the store.
C6_StartIdempotent ==
    [][(start_monitoring /\ running) => UNCHANGED StoreVars]_vars

\* start_monitoring has been called while running.
C6_Witness == ret = StartNoop

\* C7: once stop_monitoring, called while the loop slept, has returned, the
\* loop has ended.
StopReturned == mainpc = "idle" /\ ~running

C7_StopEndsWaitingLoop ==
    (StopReturned /\ stopAt = "sleep") => pc[thread] = "dead"

\* C8: after stop_monitoring, called during a tick, has returned, and with no
\* later start, the loop writes nothing to the store.
C8_NoAppendAfterStop ==
    [][(StopReturned /\ stopAt = "tick") =>
          ~(save_balance_data_open(thread) \/ save_balance_data_write(thread))]_vars

\* C9: after stop_monitoring called before the loop began its first tick, and
\* with no later start, the loop never writes to the store.
C9_StopBeforeFirstTick ==
    [][(~running /\ stopAt = "unfired") =>
          ~(save_balance_data_open(thread) \/ save_balance_data_write(thread))]_vars

\* C10: while the monitor runs and is never stopped, no loop ends, and a
\* loop whose tick raised goes on to begin another tick (as long as the model
\* has ticks left).
C10_FailedTickKeepsLoop ==
    /\ [](\A t \in Threads : pc[t] # "dead")
    /\ \A t \in Threads :
          (pc[t] = "except") ~> (pc[t] = "save" \/ Begun >= MaxTicks)

\* The first loop has begun a second tick although its first never opened
\* the file.
C10_Witness ==
    /\ ~file.exists
    /\ running
    /\ ticks[1] = 2
    /\ pc[1] = "fetch"

\* C11: a loop begins its first tick without a sleep before it, and from then
\* on its ticks and sleeps alternate: a tick begins only from the loop test,
\* the loop test is reached only from the start of the thread or from a sleep,
\* a sleep is entered only from the end of a tick (returned or raised), and a
\* sleep ends only in the loop test.
C11_TicksAndWaitsAlternate ==
    /\ [](\A t \in Threads : ticks[t] = 0 => pc[t] \in {"unborn", "while", "save", "dead"})
    /\ [][\A t \in Threads :
            /\ (pc'[t] = "save" /\ pc[t] # "save") => pc[t] = "while"
            /\ (pc'[t] = "while" /\ pc[t] # "while") =>
                   (pc[t] = "unborn" /\ ticks[t] = 0) \/ pc[t] = "sleep"
            /\ (pc'[t] = "sleep" /\ pc[t] # "sleep") => pc[t] \in {"write", "except"}
            /\ (pc[t] = "sleep" /\ pc'[t] # "sleep") => pc'[t] = "while"]_vars

\* A loop is in its second tick.
C11_Witness == \E t \in Threads : ticks[t] = 2 /\ pc[t] = "read"

\* C12: get_historical_data always returns: None when there is no file and
\* when read_csv raises, else the table of all the rows in the file.
C12_LoadNeverRaises ==
    [][get_historical_data =>
          /\ ret'.k = "loaded"
          /\ ret'.v.k \in {"None", "df"}
          /\ ~file.exists => ret'.v = None
          /\ (file.exists /\ read_csv(file.cells) = Raise) => ret'.v = None
          /\ (file.exists /\ read_csv(file.cells) # Raise) =>
                 /\ ret'.v.k = "df"
                 /\ ret'.v.rows = Readable(file)
                 /\ Len(ret'.v.rows) = (Len(file.cells) - 1 + NumCols - 1) \div NumCols]_vars

\* A load of a file that cannot be read has returned None.
C12_Witness == ret = Loaded(None) /\ file.exists

\* The pair without its last n characters.
Prefix(p, n) == SubSeq(p, 1, Len(p) - n)

\* A thread is about to value an account.
Valuing == \E t \in Threads : pc[t] = "fetch"

\* C13 as stated: for every pair that ends with a known quote ticker,
\* whatever the exchange answers, get_balance works with quote = that ticker
\* and base = the pair without it, also when the pair is the ticker alone.
C13_SuffixSplitsEveryPair ==
    Valuing =>
        \A x \in ExchangeAnswers : \A i \in 1..Len(quote_assets) :
            endswith(pair, quote_assets[i]) =>
                ResolvePair(pair, x.info) =
                    [base |-> Prefix(pair, Len(quote_assets[i])), quote |-> quote_assets[i]]

\* C13 amended: the split holds for every pair longer than the ticker it ends
\* with, and the ticker taken is the longest that ends the pair.  A pair that
\* is a ticker alone has an empty base, which counts as unresolved: the
\* exchange info decides base and quote when it lists the symbol, and
\* otherwise get_balance returns None.
C13_SuffixSplitsLongerPairs ==
    Valuing =>
        \A x \in ExchangeAnswers : \A i \in 1..Len(quote_assets) :
            LET q == quote_assets[i]
                r == ResolvePair(pair, x.info)
            IN endswith(pair, q) =>
                  /\ \A j \in 1..Len(quote_assets) :
                        endswith(pair, quote_assets[j]) => Len(quote_assets[j]) <= Len(q)
                  /\ Len(pair) > Len(q) => r = [base |-> Prefix(pair, Len(q)), quote |-> q]
                  /\ (Len(pair) = Len(q) /\ x.info = Failed) =>
                        /\ r = [base |-> <<>>, quote |-> q]
                        /\ get_balance(pair, x) = Return(None)
                  /\ (Len(pair) = Len(q) /\ x.info # Failed) =>
                        r = [base |-> x.info[1].baseAsset, quote |-> x.info[1].quoteAsset]

\* A tick has valued its accounts under a pair that is a ticker alone.
C13_Witness == pair = USDT /\ \E t \in Threads : pc[t] = "read"

\* C14: an account that holds none of the base asset is valued at its direct
\* USDT balance, whether or not the price of the pair and the conversion of
\* the quote asset can be looked up.
C14_ZeroBaseNeverAbsent ==
    Valuing =>
        \A x \in ExchangeAnswers :
            (/\ x.hasClient
             /\ x.account # Failed
             /\ ~Unresolved(pair, x)
             /\ BalanceOf(x.account[1], ResolvePair(pair, x.info).base) = 0) =>
                get_balance(pair, x) = Return(Float(BalanceOf(x.account[1], USDT)))

\* The charts have been drawn from a table.
Charted == ret.k = "charts"

\* The rows of tbl in which account j has a value, and the first of them.
Present(tbl, j) == {i \in 1..Len(tbl) : ~isna(tbl[i].vals[j])}

FirstObs(tbl, j) == tbl[CHOOSE i \in Present(tbl, j) : \A k \in Present(tbl, j) : i <= k]

RowAt(tbl, index) == CHOOSE r \in Range(tbl) : r.index = index

Zero == [n |-> 0, d |-> 1]

\* C15: for every account whose first value is not zero, the cumulative
\* series has exactly one point at the account's first observation, with that
\* row's timestamp and the value 0.
C15_CumulativeStartsAtZero ==
    Charted =>
        \A j \in 1..Len(Accounts) :
            (Present(ret.df, j) # {} /\ FirstObs(ret.df, j).vals[j].x # 0) =>
                LET f == FirstObs(ret.df, j)
                    at == SelectSeq(ret.actual[j], LAMBDA p : p.index = f.index)
                IN /\ Len(at) = 1
                   /\ at[1].timestamp = f.timestamp
                   /\ at[1].y = Zero
                   /\ ret.actual[j][1] = at[1]

\* The second account is absent in the first row and first appears, with
\* 100, in the second: its cumulative series begins there with 0.
C15_Witness ==
    /\ Charted
    /\ Len(ret.df) >= 2
    /\ ret.df[1].vals[2] = NaN
    /\ ret.df[2].vals[2] = Float(100)
    /\ ret.actual[2] # <<>>
    /\ ret.actual[2][1].index = ret.df[2].index
    /\ ret.actual[2][1].y = Zero

\* C16: the annualized series of an account has no point at the account's
\* first observation nor at an observation whose timestamp is not later than
\* that of the first observation.
C16_NoAnnualPointAtFirst ==
    Charted =>
        \A j \in 1..Len(Accounts) : \A n \in 1..Len(ret.annual[j]) :
            LET p == ret.annual[j][n]
                f == FirstObs(ret.df, j)
            IN /\ p.index # f.index
               /\ RowAt(ret.df, p.index).timestamp > f.timestamp

\* C17: neither series of an account has a point at a row where the account
\* has no value.
C17_AbsentObservationsSkipped ==
    Charted =>
        \A j \in 1..Len(Accounts) :
            /\ \A n \in 1..Len(ret.annual[j]) :
                  ~isna(RowAt(ret.df, ret.annual[j][n].index).vals[j])
            /\ \A n \in 1..Len(ret.actual[j]) :
                  ~isna(RowAt(ret.df, ret.actual[j][n].index).vals[j])

\* C18: the cumulative series of an account has no point whose timestamp is
\* earlier than that of the account's first observation.
C18_NoCumulativePointBeforeFirst ==
    Charted =>
        \A j \in 1..Len(Accounts) : \A n \in 1..Len(ret.actual[j]) :
            ret.actual[j][n].timestamp >= FirstObs(ret.df, j).timestamp

\* C19: every point of the annualized series is at a row t with a value, later
\* than the first observation, and is ((value(t) / first - 1) / years) * 100
\* with the years counted from the first observation to t; and the series
\* 100, then 150 one year later, has 50 in both charts at the second row.
AnnualOf(first, r, j) ==
    Frac((r.vals[j].x - first.vals[j].x) * 100 * YearUnits,
         first.vals[j].x * (r.timestamp - first.timestamp))

OneYearTable(tbl) ==
    /\ Len(tbl) = 2
    /\ tbl[1].vals[1] = Float(100)
    /\ tbl[2].vals[1] = Float(150)
    /\ tbl[2].timestamp - tbl[1].timestamp = YearUnits

C19_AnnualizedValue ==
    Charted =>
        /\ \A j \in 1..Len(Accounts) : \A n \in 1..Len(ret.annual[j]) :
              LET p == ret.annual[j][n]
                  r == RowAt(ret.df, p.index)
                  f == FirstObs(ret.df, j)
              IN /\ p.timestamp = r.timestamp
                 /\ ~isna(r.vals[j])
                 /\ r.timestamp > f.timestamp
                 /\ p.y = AnnualOf(f, r, j)
        /\ OneYearTable(ret.df) =>
              /\ Len(ret.annual[1]) = 1
              /\ ret.annual[1][1].y = [n |-> 50, d |-> 1]
              /\ ret.actual[1][2].y = [n |-> 50, d |-> 1]

\* C20: the two series of an account are those of every table that has the
\* same labels, timestamps and values of that account, whatever the values
\* of the other accounts.
OtherColumns(tbl) == [1..Len(tbl) -> ChartValues(1)]

WithOthers(tbl, j, o) ==
    [i \in 1..Len(tbl) |->
        [index |-> tbl[i].index,
         timestamp |-> tbl[i].timestamp,
         vals |-> [k \in 1..Len(Accounts) |-> IF k = j THEN tbl[i].vals[k] ELSE o[i]]]]

IsPrefix(s, t) == Len(s) <= Len(t) /\ SubSeq(t, 1, Len(s)) = s

\* C21: in every step the rows the store held before are a prefix of the
\* rows it holds after: no row is removed, reordered or changed.
C21_StoreAppendOnly ==
    [][IsPrefix(Readable(file), Readable(file'))]_vars

\* What an account holds of an asset, nothing when the asset is not listed.
Held(b, a) == IF a \in DOMAIN b THEN b[a] ELSE 0

Stable == {USDT, USDC, BUSD}

\* C22: for an account whose balances were fetched, get_balance returns None
\* when the pair is unresolved, when the pair has no price, and when the quote
\* asset is neither USDT nor USDC nor BUSD and the symbol quote + USDT has no
\* price; else it returns base_balance * price, times the price of
\* quote + USDT for such a quote asset, plus the direct USDT balance.
C22_ValuationFormula ==
    Valuing =>
        \A x \in ExchangeAnswers :
            (x.hasClient /\ x.account # Failed) =>
                LET p == ResolvePair(pair, x.info)
                    b == x.account[1]
                    r == get_balance(pair, x)
                IN /\ p.base = <<>> => r = Return(None)
                   /\ (p.base # <<>> /\ x.price = Failed) => r = Return(None)
                   /\ (p.base # <<>> /\ x.price # Failed /\ p.quote \in Stable) =>
                         r = Return(Float(Held(b, p.base) * x.price[1] + Held(b, USDT)))
                   /\ (p.base # <<>> /\ x.price # Failed /\ p.quote \notin Stable) =>
                         IF x.quotePrice = Failed THEN r = Return(None)
                         ELSE r = Return(Float(Held(b, p.base) * x.price[1] * x.quotePrice[1]
                                               + Held(b, USDT)))

\* Under the pair ETHBTC an account holding 1 ETH and 5 USDT, with the pair
\* at 2 and BTCUSDT at 3, has been valued at 1 * 2 * 3 + 5.
C22_Witness ==
    /\ pair = ETH \o BTC
    /\ \E t \in Threads : pc[t] = "read" /\ data[t].vals[1] = Float(11)

\* The table in a file with named columns; no columns and no rows when there
\* is no file.
FrameOf(f) == IF f.exists THEN read_csv_columns(f.cells).v ELSE EmptyFrame

\* C23: an append under any configuration keeps every column and every row
\* the file had: the old columns stay, in their order, followed by the
\* configured accounts the file did not have; the old rows keep their
\* timestamps and values and are absent in the added columns; the new row is
\* absent in the columns of accounts no longer configured; and a load of the
\* file returns this table.
C23_ColumnsAndRowsKept ==
    /\ [][save_balance_data =>
            LET old == FrameOf(file)
                new == FrameOf(file')
                n == Len(old.rows)
            IN /\ IsPrefix(old.columns, new.columns)
               /\ Range(new.columns) = Range(old.columns) \cup Range(accounts)
               /\ Len(new.columns) = Cardinality(Range(new.columns))
               /\ Len(new.rows) = n + 1
               /\ \A i \in 1..n :
                     /\ new.rows[i].timestamp = old.rows[i].timestamp
                     /\ \A c \in Range(old.columns) : new.rows[i].vals[c] = old.rows[i].vals[c]
                     /\ \A c \in Range(new.columns) \ Range(old.columns) :
                           new.rows[i].vals[c] = NaN
               /\ \A c \in Range(old.columns) \ Range(accounts) :
                     new.rows[n + 1].vals[c] = NaN
               /\ \A c \in Range(accounts) : new.rows[n + 1].vals[c] \in {NaN, Float(7)}]_vars
    /\ [][get_historical_data_columns =>
            IF file.exists
            THEN /\ ret'.v.k = "df"
                 /\ ret'.v.columns = FrameOf(file).columns
                 /\ ret'.v.rows = FrameOf(file).rows
            ELSE ret'.v = None]_vars

\* A load has returned the table of two appends, the first with the accounts
\* acc1 and acc2 and the second with acc2 and acc3: acc1 has kept its value
\* of the first row and is absent in the second, acc3 is absent in the first
\* row and valued in the second.
C23_Witness ==
    /\ ret.k = "loaded"
    /\ ret.v.k = "df"
    /\ ret.v.columns = <<"acc1", "acc2", "acc3">>
    /\ Len(ret.v.rows) = 2
    /\ ret.v.rows[1].vals["acc1"] = Float(7)
    /\ ret.v.rows[1].vals["acc3"] = NaN
    /\ ret.v.rows[2].vals["acc1"] = NaN
    /\ ret.v.rows[2].vals["acc3"] = Float(7)

\* The loops that have been started and have not ended.
Alive == {t \in Threads : pc[t] \notin {"unborn", "dead"}}

\* C24: whatever start_monitoring and stop_monitoring calls were made, at
\* most one background loop is alive.
C24_AtMostOneLoop == Cardinality(Alive) <= 1

\* C25: while the monitor stays stopped every loop comes to its end; a loop
\* that finds the flag False at its test begins no tick, a loop that has
\* ended takes no further step, and once no loop is alive the store does not
\* change.
C25_StoppedLoopEnds ==
    /\ \A t \in Threads : (~running /\ pc[t] # "unborn") ~> (running \/ pc[t] = "dead")
    /\ [][\A t \in Threads :
            /\ (pc[t] = "while" /\ ~running) => pc'[t] \in {"while", "dead"}
            /\ pc[t] = "dead" => (pc'[t] = "dead" /\ ticks'[t] = ticks[t])]_vars
    /\ [][Alive = {} => file' = file]_vars

\* The monitor is stopped and its loop has ended after a tick that wrote the
\* file.
C25_Witness ==
    /\ ~running
    /\ mainpc = "idle"
    /\ Alive = {}
    /\ \E t \in Threads : pc[t] = "dead" /\ ticks[t] >= 1
    /\ Len(Readable(file)) >= 1
====
